---------------------------- MODULE Spec2Model ----------------------------
(***************************************************************************)
(* cc2imgcap: extraction of (url, alt) image links from Common Crawl WAT   *)
(* archives, deduplication by uid and persistence as a parquet dataset.   *)
(* The module models src/cc2imgcap/main.py.                                *)
(*                                                                         *)
(* Python strings are TLA+ strings (\o is +, Len is len).  A Python dict   *)
(* is a function whose DOMAIN is the set of its keys, so `k in d` is       *)
(* k \in DOMAIN d and d[k] on an absent key is a KeyError.                 *)
(***************************************************************************)
EXTENDS Integers, Sequences, FiniteSets, TLC

VARIABLES
    pc,               \* position of the running call
    files,            \* the archive store: URL -> archive file (what fsspec.open finds)
    storage,          \* the dataset store: location -> rows persisted there
    wat_index_files,  \* cc2imgcap: the shard paths read_wat_index_files returned
    multipart,        \* cc2imgcap: the multipart parameter (NoMultipart or an integer)
    job_id,           \* cc2imgcap: str(uuid.uuid4())
    part_i,           \* process_multi_part: the loop variable i
    part_paths,       \* process_multi_part: part_paths
    call,             \* the arguments of the running call
    df,               \* the data frame handed to deduplicate_repartition_count
    err,              \* the exception that ended the run (None: none)
    ret               \* what the last call returned / printed

vars == <<pc, files, storage, wat_index_files, multipart, job_id, part_i,
          part_paths, call, df, err, ret>>

None == "None"

\* multipart=None (line 162), among the integer values of multipart.  An
\* integer multipart of the model is at least 1.
NoMultipart == 0

\* Bounds of the model.
MaxRecords == 2   \* metadata records in one archive stream
MaxLinks == 2     \* link descriptors in one record
MaxRows == 3      \* rows of a data frame handed directly to the dedup stage
MaxWats == 4      \* shard paths in one job (wat_count)

Min(a, b) == IF a < b THEN a ELSE b

Max(a, b) == IF a > b THEN a ELSE b

SeqsUpTo(S, n) == UNION {[1..k -> S] : k \in 0..n}

\* d = {} : the dict with no key.
EmptyDict == [k \in {} |-> k]

---------------------------------------------------------------------------
(* str.startswith / str.endswith                                           *)

StartsWith(s, p) == Len(s) >= Len(p) /\ SubSeq(s, 1, Len(p)) = p

EndsWith(s, p) == Len(s) >= Len(p) /\ SubSeq(s, Len(s) - Len(p) + 1, Len(s)) = p

\* link.get(key, "")
Get(link, key) == IF key \in DOMAIN link THEN link[key] ELSE ""

---------------------------------------------------------------------------
(* valid_link, lines 57-62                                                 *)

\* The filter without its trailing `and valid_path`: the extension test
\* becomes an alternative to the path test.
valid_link_no_path(link) ==
    LET valid_path == Get(link, "path") = "IMG@/src"
        valid_img == \E e \in {".png", ".jpg", ".jpeg"} : EndsWith(Get(link, "url"), e)
        valid_alt == Len(Get(link, "alt")) > 0
        valid_http == StartsWith(Get(link, "url"), "http")
    IN  (valid_path \/ valid_img) /\ valid_http /\ valid_alt

valid_link(link) ==
    LET valid_path == Get(link, "path") = "IMG@/src"
        valid_img == \E e \in {".png", ".jpg", ".jpeg"} : EndsWith(Get(link, "url"), e)
        valid_alt == Len(Get(link, "alt")) > 0
        valid_http == StartsWith(Get(link, "url"), "http")
    IN  (valid_path \/ valid_img) /\ valid_path /\ valid_http /\ valid_alt

---------------------------------------------------------------------------
(* extract_imgs, lines 20-54                                               *)

\* hashlib.md5(s.encode()).hexdigest(): an injective stand-in for the digest
\* (md5 is taken to be collision free on the strings of the model).
Md5Hex(s) == "md5(" \o s \o ")"

\* Lines 46-48: the row built from one accepted descriptor.
Candidate(link) ==
    [url |-> link["url"], alt |-> link["alt"], uid |-> Md5Hex(link["alt"] \o link["url"])]

\* Lines 46-48: filtered_links of one record's links.
FilteredLinks(links) ==
    LET sel == SelectSeq(links, valid_link)
    IN  [i \in 1..Len(sel) |-> Candidate(sel[i])]

\* Lines 26-49: the loop body on one record.  kind is what the body does:
\* "continue" (next record), "extend" (all_links.extend(links)) or "raise".
RecordBody(record) ==
    IF ~record.decodes
    THEN [kind |-> "continue", links |-> <<>>]                       \* lines 28-30
    ELSE LET record_data == record.data IN
         IF "Envelope" \notin DOMAIN record_data
         THEN [kind |-> "raise", links |-> <<>>]                     \* line 32: KeyError
         ELSE LET envelope == record_data["Envelope"] IN
         IF "Payload-Metadata" \notin DOMAIN envelope
         THEN [kind |-> "raise", links |-> <<>>]                     \* line 33: KeyError
         ELSE LET payload == envelope["Payload-Metadata"] IN
         IF "HTTP-Response-Metadata" \notin DOMAIN payload
         THEN [kind |-> "continue", links |-> <<>>]                  \* lines 34-35
         ELSE LET http_resp == payload["HTTP-Response-Metadata"] IN
         IF "HTML-Metadata" \notin DOMAIN http_resp
         THEN [kind |-> "continue", links |-> <<>>]                  \* lines 37-38
         ELSE LET metadata == http_resp["HTML-Metadata"] IN
         IF "Links" \notin DOMAIN metadata
         THEN [kind |-> "continue", links |-> <<>>]                  \* lines 40-41
         ELSE [kind |-> "extend", links |-> FilteredLinks(metadata["Links"])]

\* Lines 24-49: the body of the outer try, from record i on.  The stream
\* delivers stream.records in order and, when stream.faulty, ArchiveIterator
\* raises after the last of them.  exc is the exception leaving the try body.
RECURSIVE TryBody(_, _, _)
TryBody(stream, i, all_links) ==
    IF i > Len(stream.records)
    THEN [exc |-> IF stream.faulty THEN "StreamError" ELSE None, all_links |-> all_links]
    ELSE LET step == RecordBody(stream.records[i]) IN
         CASE step.kind = "continue" -> TryBody(stream, i + 1, all_links)
           [] step.kind = "raise"    -> [exc |-> "KeyError", all_links |-> all_links]
           [] step.kind = "extend"   -> TryBody(stream, i + 1, all_links \o step.links)

\* extract_imgs whose handler returns what was gathered instead of [].
extract_imgs_keep(stream) ==
    LET body == TryBody(stream, 1, <<>>)
    IN  IF body.exc # None
        THEN [raised |-> None, value |-> body.all_links, printed |-> "A shard failed"]
        ELSE [raised |-> None, value |-> body.all_links, printed |-> None]

\* extract_imgs(stream): raised is the exception leaving the call, value the
\* list returned, printed the line 51 message.
extract_imgs(stream) ==
    LET body == TryBody(stream, 1, <<>>)
    IN  IF body.exc # None
        THEN [raised |-> None, value |-> <<>>, printed |-> "A shard failed"]   \* lines 50-52
        ELSE [raised |-> None, value |-> body.all_links, printed |-> None]     \* line 54

---------------------------------------------------------------------------
(* process_wat, lines 71-82                                                *)

\* Line 77: the tuple yielded for one candidate; toDF(["uid","url","alt"])
\* names its columns (line 134).
Row(e) == [uid |-> e["uid"], url |-> e["url"], alt |-> e["alt"]]

\* process_wat(path) run to exhaustion against the archive store fs.
\* fsspec.open(...).__enter__ raises when the file cannot be opened; the
\* `with` is in no try, so the exception leaves the generator.
process_wat(fs, path) ==
    IF ~fs[path].openable
    THEN [raised |-> "OpenError", value |-> <<>>]                    \* line 75
    ELSE LET r == extract_imgs(fs[path].stream)                      \* line 76
         IN  [raised |-> r.raised,
              value |-> [k \in 1..Len(r.value) |-> Row(r.value[k])]] \* line 77

---------------------------------------------------------------------------
(* Inputs: link descriptors, records, streams, archive files               *)

FieldNames == {"path", "url", "alt"}

\* Every descriptor whose path, url and alt are each absent or one of these strings.
FullLinks ==
    [path : {"IMG@/src", "A@/href"},
     url  : {"", "http://a/x.png", "http://a/y", "ftp://a/z.jpg"},
     alt  : {"", "cat"}]

AllLinks == UNION {{[k \in K |-> full[k]] : full \in FullLinks} : K \in SUBSET FieldNames}

LinkCat == [path |-> "IMG@/src", url |-> "http://a/x.png", alt |-> "cat"]

LinkPlain == [path |-> "IMG@/src", url |-> "http://a/y", alt |-> "cat"]

LinkHref == [path |-> "A@/href", url |-> "http://a/x.png", alt |-> "cat"]

\* The descriptors the records of a stream are built from.
SampleLinks == {LinkCat, LinkPlain, LinkHref}

\* The nesting Envelope > Payload-Metadata > HTTP-Response-Metadata >
\* HTML-Metadata > Links, cut after its first `depth` levels.
NestingLevels ==
    <<"Envelope", "Payload-Metadata", "HTTP-Response-Metadata", "HTML-Metadata", "Links">>

RECURSIVE Nest(_, _, _)
Nest(level, depth, links) ==
    IF level > depth THEN EmptyDict
    ELSE IF level = Len(NestingLevels) THEN (NestingLevels[level] :> links)
    ELSE (NestingLevels[level] :> Nest(level + 1, depth, links))

Undecodable == [decodes |-> FALSE, data |-> EmptyDict]

Records ==
    {Undecodable}
    \cup {[decodes |-> TRUE, data |-> Nest(1, d, <<>>)] : d \in 0..(Len(NestingLevels) - 1)}
    \cup {[decodes |-> TRUE, data |-> Nest(1, Len(NestingLevels), ls)] :
            ls \in SeqsUpTo(SampleLinks, MaxLinks)}

Streams == [records : SeqsUpTo(Records, MaxRecords), faulty : BOOLEAN]

Unreachable == [openable |-> FALSE, stream |-> [records |-> <<>>, faulty |-> FALSE]]

Archive(stream) == [openable |-> TRUE, stream |-> stream]

WatUrl == "s3://commoncrawl/wat/a.gz"

---------------------------------------------------------------------------
(* SpecExtract: one archive file, process_wat or extract_imgs applied      *)

NoCall == [output_path |-> None]

InitExtract ==
    /\ pc = "call"
    /\ files \in [{WatUrl} -> {Unreachable} \cup {Archive(s) : s \in Streams}]
    /\ storage = EmptyDict
    /\ wat_index_files = <<>>
    /\ multipart = NoMultipart
    /\ job_id = None
    /\ part_i = 0
    /\ part_paths = <<>>
    /\ call = NoCall
    /\ df = <<>>
    /\ err = None
    /\ ret = None

\* extract_imgs(f) on the opened stream of the file.
ExtractImgsCall ==
    /\ pc = "call"
    /\ files[WatUrl].openable
    /\ ret' = extract_imgs(files[WatUrl].stream)
    /\ pc' = "extract_imgs_returned"
    /\ UNCHANGED <<files, storage, wat_index_files, multipart, job_id, part_i,
                   part_paths, call, df, err>>

\* list(process_wat(path))
ProcessWatCall ==
    /\ pc = "call"
    /\ ret' = process_wat(files, WatUrl)
    /\ pc' = "process_wat_returned"
    /\ UNCHANGED <<files, storage, wat_index_files, multipart, job_id, part_i,
                   part_paths, call, df, err>>

NextExtract == ExtractImgsCall \/ ProcessWatCall

SpecExtract == InitExtract /\ [][NextExtract]_vars

---------------------------------------------------------------------------
(* deduplicate_repartition_count, lines 111-120                            *)

\* rows at the indices K, in order.
SubAt(rows, K) ==
    LET F[i \in 0..Len(rows)] ==
            IF i = 0 THEN <<>>
            ELSE IF i \in K THEN Append(F[i - 1], rows[i]) ELSE F[i - 1]
    IN  F[Len(rows)]

\* A deduplication that compares whole rows (df.distinct()) instead of uid.
DropDuplicatesRows(rows) ==
    {SubAt(rows, K) : K \in {K \in SUBSET (1..Len(rows)) :
        \A i \in 1..Len(rows) : Cardinality({k \in K : rows[k] = rows[i]}) = 1}}

\* Line 112, df.dropDuplicates(["uid"]): one row is kept for each uid, and
\* which one is not determined.  The set of possible results.
DropDuplicates(rows) ==
    {SubAt(rows, K) : K \in {K \in SUBSET (1..Len(rows)) :
        \A i \in 1..Len(rows) : Cardinality({k \in K : rows[k].uid = rows[i].uid}) = 1}}

\* Line 113: the partition count of the written dataset.
NumPartitions(wat_count) == Max(256, wat_count \div 100)

\* Whether a dataset location exists in the store: it holds a dataset or is
\* the directory of one.
PathExists(st, loc) ==
    \E l \in DOMAIN st : l = loc \/ StartsWith(l, loc \o "/")

\* deduplicate_repartition_count(rows, output_path, wat_count, spark) on store
\* st: the set of its possible outcomes.  write.parquet is called without a
\* mode, so it raises when output_path already exists and writes nothing
\* (Spark's default save mode); size is the count printed at line 120.
DedupOutcomes(rows, output_path, wat_count, st) ==
    IF PathExists(st, output_path)
    THEN {[exc |-> "AnalysisException", storage |-> st, size |-> None]}        \* line 115
    ELSE {[exc |-> None,
           storage |-> st @@ (output_path :>
                          [rows |-> u, partitions |-> NumPartitions(wat_count)]),
           size |-> Len(u)] : u \in DropDuplicates(rows)}

---------------------------------------------------------------------------
(* SpecDedup: deduplicate_repartition_count applied to any data frame      *)

DedupRows == [uid : {"u1", "u2"}, url : {"http://a/x.png", "http://a/y"}, alt : {"cat"}]

OutputPath == "s3://out"

\* A dataset an earlier run left in the store.
OldDataset ==
    [rows |-> <<[uid |-> "u0", url |-> "http://old", alt |-> "old"]>>, partitions |-> 256]

InitDedup ==
    /\ pc = "dedup_call"
    /\ df \in SeqsUpTo(DedupRows, MaxRows)
    /\ call \in [output_path : {OutputPath \o "/j1"}, wat_count : {1, 100000}]
    /\ storage \in {EmptyDict,
                    (OutputPath \o "/j1" :> OldDataset),
                    (OutputPath \o "/j1/part_0" :> OldDataset),
                    (OutputPath \o "/j0" :> OldDataset)}
    /\ files = EmptyDict
    /\ wat_index_files = <<>>
    /\ multipart = NoMultipart
    /\ job_id = None
    /\ part_i = 0
    /\ part_paths = <<>>
    /\ err = None
    /\ ret = None

DeduplicateRepartitionCount ==
    /\ pc = "dedup_call"
    /\ \E o \in DedupOutcomes(df, call.output_path, call.wat_count, storage) :
          /\ storage' = o.storage
          /\ err' = o.exc
          /\ ret' = [size |-> o.size]
    /\ pc' = "dedup_returned"
    /\ UNCHANGED <<files, wat_index_files, multipart, job_id, part_i, part_paths,
                   call, df>>

NextDedup == DeduplicateRepartitionCount

SpecDedup == InitDedup /\ [][NextDedup]_vars

---------------------------------------------------------------------------
(* process_one_part, lines 123-136                                         *)

\* Line 127, sc.parallelize(wat_index_files, wat_count): wat_count
\* partitions, one shard path each.
Parallelize(paths) == [k \in 1..Len(paths) |-> <<paths[k]>>]

\* Lines 129-131, extract(x) run to exhaustion on one partition.
Extract(fs, x) == process_wat(fs, "s3://commoncrawl/" \o x[1])

\* Line 134, output.toDF(["uid", "url", "alt"]): given column names only,
\* pyspark infers the column types from the first row of the RDD, which runs
\* extract on partition 1, then on the next 4 * scanned partitions at a time,
\* until a row is found (RDD.take).  A task that raises fails the job; an RDD
\* with no row at all raises ValueError.  exc is the exception toDF raises.
RECURSIVE InferSchema(_, _, _)
InferSchema(fs, rdd, scanned) ==
    IF scanned >= Len(rdd) THEN [exc |-> "ValueError"]
    ELSE LET numPartsToTry == IF scanned = 0 THEN 1 ELSE scanned * 4
             p == (scanned + 1)..Min(scanned + numPartsToTry, Len(rdd))
         IN  IF \E k \in p : Extract(fs, rdd[k]).raised # None
             THEN [exc |-> "OpenError"]
             ELSE IF \E k \in p : Extract(fs, rdd[k]).value # <<>>
             THEN [exc |-> None]
             ELSE InferSchema(fs, rdd, scanned + numPartsToTry)

\* The rows of the data frame when an action (the write) evaluates it: every
\* partition's extract, concatenated.
RECURSIVE Collect(_, _, _)
Collect(fs, rdd, k) ==
    IF k > Len(rdd) THEN [exc |-> None, rows |-> <<>>]
    ELSE LET head == Extract(fs, rdd[k])
             rest == Collect(fs, rdd, k + 1)
         IN  IF head.raised # None THEN [exc |-> head.raised, rows |-> <<>>]
             ELSE IF rest.exc # None THEN rest
             ELSE [exc |-> None, rows |-> head.value \o rest.rows]

\* The names bound in process_one_part when line 136 runs: its parameters and
\* the locals assigned at lines 125-134.
ProcessOnePartLocals ==
    {"output_path", "wat_index_files", "sc", "wat_count", "wat_rdd", "extract",
     "output", "df"}

\* The names bound at module level: the imports of lines 4-17 and the
\* functions defined at lines 20-178.
ModuleGlobals ==
    {"ArchiveIterator", "WarcRecordType", "BinaryIO", "simdjson", "fsspec", "timer",
     "logger", "hashlib", "ThreadPool", "SparkContext", "random", "uuid", "math",
     "time", "build_spark_session", "extract_imgs", "valid_link", "url_is_img",
     "process_wat", "get_cc_wat_links", "read_wat_index_file", "read_wat_index_files",
     "deduplicate_repartition_count", "process_one_part", "process_multi_part",
     "cc2imgcap", "main"}

\* Line 136 reads the name `spark`.  It is a local of cc2imgcap (line 164) and
\* a parameter of process_multi_part, not a name process_one_part can see.
SparkIsBound == "spark" \in ProcessOnePartLocals \cup ModuleGlobals

---------------------------------------------------------------------------
(* process_multi_part, lines 139-159, and cc2imgcap, lines 162-175         *)

\* math.ceil(wat_count / multipart) computed with a floor.
WatPerPartFloor(wat_count, m) == wat_count \div m

\* Line 142: math.ceil(wat_count / multipart)
WatPerPart(wat_count, m) == (wat_count + m - 1) \div m

\* s[start:end] for 0 <= start <= end: Python clips both to len(s).
PySlice(s, start, end) == SubSeq(s, Min(start, Len(s)) + 1, Min(end, Len(s)))

\* Lines 145-146 and 150: the slice of part i.
PartSlice(s, m, i) ==
    LET wat_per_part == WatPerPart(Len(s), m)
        start == i * wat_per_part
        end == (i + 1) * wat_per_part
    IN  PySlice(s, start, end)

\* Line 147: f"{output_path}/part_{i}"
PartPath(output_path, i) == output_path \o "/part_" \o ToString(i)

\* full_output_path without the job id.
FullOutputPathNoJob(output_path, jid) == output_path

\* Line 169: f"{output_path}/{job_id}"
FullOutputPath(output_path, jid) == output_path \o "/" \o jid

\* Lines 152-157: the union of the parts read back, in part_paths order.
RECURSIVE MergeParts(_, _, _)
MergeParts(st, paths, k) ==
    IF k > Len(paths) THEN <<>>
    ELSE st[paths[k]].rows \o MergeParts(st, paths, k + 1)

\* The job ids uuid.uuid4() can return: a random 122-bit id, taken never to
\* repeat an id already used under the output path.
JobIds == {"j1", "j2"}

Uuid4(st) == {j \in JobIds : ~PathExists(st, OutputPath \o "/" \o j)}

ShardPaths == {"wat/a.gz", "wat/b.gz"}

Record(links) == [decodes |-> TRUE, data |-> Nest(1, Len(NestingLevels), links)]

\* The archive files of a job: one that cannot be opened, one whose stream
\* raises at once, and two readable ones that share the candidate of LinkCat.
JobArchives ==
    {Unreachable,
     Archive([records |-> <<>>, faulty |-> TRUE]),
     Archive([records |-> <<Record(<<LinkCat>>)>>, faulty |-> FALSE]),
     Archive([records |-> <<Record(<<LinkHref, LinkPlain>>), Record(<<LinkCat>>)>>,
              faulty |-> FALSE])}

Init ==
    /\ pc = "start"
    /\ files \in [{"s3://commoncrawl/" \o p : p \in ShardPaths} -> JobArchives]
    /\ storage \in {EmptyDict,
                    (OutputPath :> OldDataset),
                    (FullOutputPath(OutputPath, "j1") :> OldDataset),
                    (FullOutputPath(OutputPath, "j1") :> OldDataset)
                        @@ (PartPath(FullOutputPath(OutputPath, "j1"), 0) :> OldDataset)}
    /\ call \in [output_path : {OutputPath}, wat_count : 1..MaxWats]
    /\ multipart \in {NoMultipart} \cup 1..call.wat_count
    /\ wat_index_files = <<>>
    /\ job_id = None
    /\ part_i = 0
    /\ part_paths = <<>>
    /\ df = <<>>
    /\ err = None
    /\ ret = None

\* Line 166: a manifest cannot be read; the exception leaves cc2imgcap.
ManifestReadFails ==
    /\ pc = "start"
    /\ pc' = "failed"
    /\ err' = "ManifestError"
    /\ UNCHANGED <<files, storage, wat_index_files, multipart, job_id, part_i,
                   part_paths, call, df, ret>>

\* Lines 164-166, read_wat_index_files (lines 97-108): random.choices draws
\* wat_count paths with replacement from those the manifests list.
ReadWatIndexFiles ==
    /\ pc = "start"
    /\ wat_index_files' \in [1..call.wat_count -> ShardPaths]
    /\ pc' = "job_id"
    /\ UNCHANGED <<files, storage, multipart, job_id, part_i, part_paths, call,
                   df, err, ret>>

\* Lines 167-170
NewJobId ==
    /\ pc = "job_id"
    /\ job_id' \in Uuid4(storage)
    /\ pc' = "dispatch"
    /\ UNCHANGED <<files, storage, wat_index_files, multipart, part_i, part_paths,
                   call, df, err, ret>>

\* Lines 172-175
Dispatch ==
    /\ pc = "dispatch"
    /\ IF multipart = NoMultipart
       THEN /\ call' = [output_path |-> FullOutputPath(call.output_path, job_id),
                        wat_index_files |-> wat_index_files]
            /\ pc' = "process_one_part"
       ELSE /\ call' = [output_path |-> FullOutputPath(call.output_path, job_id)]
            /\ pc' = "process_multi_part"
    /\ part_i' = 0
    /\ part_paths' = <<>>
    /\ UNCHANGED <<files, storage, wat_index_files, multipart, job_id, df, err, ret>>

\* process_multi_part: one iteration of the loop of lines 144-150, which
\* calls process_one_part on the slice, or, after the loop, lines 151-159.
ProcessMultiPart ==
    /\ pc = "process_multi_part"
    /\ LET output_path == FullOutputPath(OutputPath, job_id) IN
       IF part_i < multipart
       THEN /\ part_paths' = Append(part_paths, PartPath(output_path, part_i))
            /\ call' = [output_path |-> PartPath(output_path, part_i),
                        wat_index_files |-> PartSlice(wat_index_files, multipart, part_i)]
            /\ pc' = "process_one_part"
            /\ UNCHANGED <<storage, df, err, ret>>
       ELSE /\ df' = MergeParts(storage, part_paths, 1)
            /\ \E o \in DedupOutcomes(df', output_path, Len(wat_index_files), storage) :
                  /\ storage' = o.storage
                  /\ err' = o.exc
                  /\ ret' = [size |-> o.size]
                  /\ pc' = IF o.exc = None THEN "done" ELSE "failed"
            /\ UNCHANGED <<part_paths, call>>
    /\ UNCHANGED <<files, wat_index_files, multipart, job_id, part_i>>

\* process_one_part, lines 125-134: the RDD is built and toDF infers the schema.
ProcessOnePartToDF ==
    /\ pc = "process_one_part"
    /\ IF Len(call.wat_index_files) = 0
       THEN /\ err' = "ZeroDivisionError"     \* line 127: parallelize(c, 0)
            /\ pc' = "failed"
       ELSE LET wat_rdd == Parallelize(call.wat_index_files)
                inferred == InferSchema(files, wat_rdd, 0)
            IN  /\ err' = inferred.exc
                /\ pc' = IF inferred.exc = None THEN "process_one_part_136" ELSE "failed"
    /\ UNCHANGED <<files, storage, wat_index_files, multipart, job_id, part_i,
                   part_paths, call, df, ret>>

\* process_one_part, line 136: the call of deduplicate_repartition_count.
\* Its arguments are evaluated first, and `spark` is not bound: NameError.
ProcessOnePartDedup ==
    /\ pc = "process_one_part_136"
    /\ IF ~SparkIsBound
       THEN /\ err' = "NameError"
            /\ pc' = "failed"
            /\ UNCHANGED <<storage, df, ret, part_i>>
       ELSE LET rows == Collect(files, Parallelize(call.wat_index_files), 1) IN
            IF rows.exc # None
            THEN /\ err' = rows.exc
                 /\ pc' = "failed"
                 /\ UNCHANGED <<storage, df, ret, part_i>>
            ELSE /\ df' = rows.rows
                 /\ \E o \in DedupOutcomes(rows.rows, call.output_path,
                                           Len(call.wat_index_files), storage) :
                       /\ storage' = o.storage
                       /\ err' = o.exc
                       /\ ret' = [size |-> o.size]
                       /\ pc' = IF o.exc # None THEN "failed"
                                ELSE IF multipart = NoMultipart THEN "done"
                                ELSE "process_multi_part"
                 /\ part_i' = IF multipart = NoMultipart THEN part_i ELSE part_i + 1
    /\ UNCHANGED <<files, wat_index_files, multipart, job_id, part_paths, call>>

\* The job is cancelled (its process killed) between two steps.
Abort ==
    /\ pc \notin {"start", "done", "failed", "aborted"}
    /\ pc' = "aborted"
    /\ UNCHANGED <<files, storage, wat_index_files, multipart, job_id, part_i,
                   part_paths, call, df, err, ret>>

Next ==
    \/ ManifestReadFails
    \/ ReadWatIndexFiles
    \/ NewJobId
    \/ Dispatch
    \/ ProcessMultiPart
    \/ ProcessOnePartToDF
    \/ ProcessOnePartDedup
    \/ Abort

Spec == Init /\ [][Next]_vars

---------------------------------------------------------------------------
(* Properties of valid_link and extract_imgs, checked under SpecExtract    *)

\* The nesting levels of NestingLevels from `level` on are all present in d.
RECURSIVE HasLevels(_, _)
HasLevels(d, level) ==
    IF level > Len(NestingLevels) THEN TRUE
    ELSE NestingLevels[level] \in DOMAIN d /\ HasLevels(d[NestingLevels[level]], level + 1)

RECURSIVE LinksOf(_, _)
LinksOf(d, level) ==
    IF level > Len(NestingLevels) THEN d ELSE LinksOf(d[NestingLevels[level]], level + 1)

\* A record that decodes and has every nesting level.
WellFormed(record) == record.decodes /\ HasLevels(record.data, 1)

\* The stated validity rule: path is the image marker, url begins with http,
\* alt is not empty.
StatedValid(link) ==
    /\ "path" \in DOMAIN link /\ link["path"] = "IMG@/src"
    /\ "url" \in DOMAIN link /\ StartsWith(link["url"], "http")
    /\ "alt" \in DOMAIN link /\ link["alt"] # ""

\* The candidates of the descriptors StatedValid accepts, over the well-formed
\* records of a list, in order; every other record contributes nothing.
RECURSIVE StatedCandidates(_, _)
StatedCandidates(records, i) ==
    IF i > Len(records) THEN <<>>
    ELSE LET sel == IF WellFormed(records[i])
                    THEN SelectSeq(LinksOf(records[i].data, 1), StatedValid)
                    ELSE <<>>
         IN  [k \in 1..Len(sel) |-> Candidate(sel[k])] \o StatedCandidates(records, i + 1)

TheStream == files[WatUrl].stream

\* The stream raised after all of its records were processed without an error.
FaultAfterGoodRecords ==
    /\ pc = "extract_imgs_returned"
    /\ TheStream.faulty
    /\ TryBody(TheStream, 1, <<>>).exc = "StreamError"

\* C4 as stated: when the stream raises after k records were processed,
\* extract_imgs does not raise and returns the candidates gathered from those
\* records.
C4_ReturnsGathered ==
    FaultAfterGoodRecords =>
        /\ ret.raised = None
        /\ ret.value = StatedCandidates(TheStream.records, 1)

\* C4 amended: when the stream raises after k records were processed,
\* extract_imgs does not raise, prints "A shard failed" and returns the empty
\* list: the candidates gathered before the fault are discarded.
C4_ReturnsEmpty ==
    FaultAfterGoodRecords =>
        /\ ret.raised = None
        /\ ret.value = <<>>
        /\ ret.printed = "A shard failed"

\* A stream that raised after a record that gave a candidate.
C4_Witness ==
    /\ FaultAfterGoodRecords
    /\ StatedCandidates(TheStream.records, 1) # <<>>
    /\ ret.value = <<>>

\* C5 as stated: a record that does not decode, or lacks any nesting level, is
\* skipped on its own, and extract_imgs returns the candidates of every other
\* record of the file.
C5_BadRecordSkipped ==
    (pc = "extract_imgs_returned" /\ ~TheStream.faulty) =>
        /\ ret.raised = None
        /\ ret.value = StatedCandidates(TheStream.records, 1)

\* valid_link accepts exactly the descriptors StatedValid accepts.
ValidLinkIsStated == \A link \in AllLinks : valid_link(link) <=> StatedValid(link)

\* Appending an image extension to the url of a descriptor never changes
\* what valid_link answers.
ExtensionIgnored ==
    \A link \in AllLinks : \A e \in {".png", ".jpg", ".jpeg"} :
        "url" \in DOMAIN link =>
            valid_link([link EXCEPT !["url"] = @ \o e]) = valid_link(link)

\* C6: valid_link accepts exactly the descriptors with path "IMG@/src", a url
\* that starts with "http" and a non-empty alt; whether the url has an image
\* extension never changes its answer; and a run of extract_imgs in which no
\* exception was swallowed returns the candidates of exactly those descriptors.
C6_ValidLink ==
    /\ ValidLinkIsStated
    /\ ExtensionIgnored
    /\ (pc = "extract_imgs_returned" /\ ret.printed = None) =>
          ret.value = StatedCandidates(TheStream.records, 1)

\* A record holding an accepted and a rejected descriptor (the rejected one
\* has an image url) was extracted.
C6_Witness ==
    /\ pc = "extract_imgs_returned"
    /\ ret.printed = None
    /\ TheStream.records = <<Record(<<LinkHref, LinkCat>>)>>
    /\ ret.value = <<Candidate(LinkCat)>>

---------------------------------------------------------------------------
(* Properties of deduplicate_repartition_count, checked under SpecDedup    *)

Ids(rows) == {rows[i].uid : i \in 1..Len(rows)}

\* C1: the dataset deduplicate_repartition_count persists holds every uid of
\* its input exactly once, and no more rows than the input.
C1_UniqueIds ==
    (pc = "dedup_returned" /\ err = None) =>
        LET out == storage[call.output_path].rows IN
        /\ \A i, j \in 1..Len(out) : i # j => out[i].uid # out[j].uid
        /\ Ids(out) = Ids(df)
        /\ Len(out) <= Len(df)

\* An input with two different rows of one uid was persisted.
C1_Witness ==
    /\ pc = "dedup_returned"
    /\ err = None
    /\ \E i, j \in 1..Len(df) : df[i].uid = df[j].uid /\ df[i] # df[j]
    /\ Len(storage[call.output_path].rows) < Len(df)

---------------------------------------------------------------------------
(* Properties of the job, checked under Spec                               *)

JobRoot == OutputPath \o "/" \o job_id

Ended == pc \in {"done", "failed"}

ShardFile(k) == files["s3://commoncrawl/" \o wat_index_files[k]]

\* The ids of the single pass over the whole shard list.
SinglePassIds == Ids(Collect(files, Parallelize(wat_index_files), 1).rows)

\* C2 as stated: a multi-part run over readable shards completes, and its
\* final dataset has the ids of the single pass over the same list.
C2_MultipartSameIds ==
    (/\ Ended
     /\ multipart # NoMultipart
     /\ err # "ManifestError"
     /\ \A k \in 1..Len(wat_index_files) :
            ShardFile(k).openable /\ ~ShardFile(k).stream.faulty) =>
        /\ pc = "done"
        /\ JobRoot \in DOMAIN storage
        /\ Ids(storage[JobRoot].rows) = SinglePassIds

\* The candidates of shard k when it can be read, none otherwise.
ReadableRows(k) ==
    IF ShardFile(k).openable THEN process_wat(files, "s3://commoncrawl/" \o wat_index_files[k]).value
    ELSE <<>>

\* C3 as stated: a shard that cannot be opened or read contributes no
\* candidate and does not fail the job: no open error leaves the extraction,
\* and the dataset of the other shards' candidates is persisted.
C3_BadShardTolerated ==
    (/\ wat_index_files # <<>>
     /\ \E k \in 1..Len(wat_index_files) :
            ~ShardFile(k).openable \/ ShardFile(k).stream.faulty) =>
        /\ err # "OpenError"
        /\ (Ended /\ err # "ManifestError" /\ multipart = NoMultipart) =>
              /\ pc = "done"
              /\ JobRoot \in DOMAIN storage
              /\ Ids(storage[JobRoot].rows) =
                    UNION {Ids(ReadableRows(k)) : k \in 1..Len(wat_index_files)}

\* The index range [0, n)
Indices(n) == [k \in 1..n |-> k - 1]

RECURSIVE ConcatParts(_, _, _)
ConcatParts(s, m, i) ==
    IF i >= m THEN <<>> ELSE PartSlice(s, m, i) \o ConcatParts(s, m, i + 1)

\* C7: the slices of parts 0..multipart-1 are contiguous, do not overlap and
\* hold every index of [0, shard_count) exactly once.
C7_SlicesPartition ==
    (multipart # NoMultipart /\ wat_index_files # <<>>) =>
        LET n == Len(wat_index_files) IN
        /\ ConcatParts(Indices(n), multipart, 0) = Indices(n)
        /\ ConcatParts(wat_index_files, multipart, 0) = wat_index_files
        /\ \A k \in 0..(n - 1) :
              Cardinality({i \in 0..(multipart - 1) :
                  \E x \in 1..Len(PartSlice(Indices(n), multipart, i)) :
                      PartSlice(Indices(n), multipart, i)[x] = k}) = 1

\* Part 0 of an uneven split is handed to process_one_part.
C7_Witness ==
    /\ pc = "process_one_part"
    /\ multipart = 2
    /\ Len(wat_index_files) = 3
    /\ call.wat_index_files = SubSeq(wat_index_files, 1, 2)

\* Every location the job hands to process_one_part as its write target is
\* the job's own root or a part of it, and holds no dataset.
WriteTargetFresh ==
    pc \in {"process_one_part", "process_one_part_136"} =>
        /\ \/ call.output_path = JobRoot
           \/ \E i \in 0..(Len(wat_index_files) - 1) :
                 call.output_path = JobRoot \o "/part_" \o ToString(i)
        /\ call.output_path \notin DOMAIN storage

\* No step changes or removes a dataset the store holds.
PersistedUnchanged ==
    \A loc \in DOMAIN storage : loc \in DOMAIN storage' /\ storage'[loc] = storage[loc]

\* C8: in every state of a job, aborted ones included, the datasets earlier
\* jobs persisted are unchanged, and every write target is a location of the
\* job's own fresh job_id that holds no dataset.
C8_PreviousOutputKept == []WriteTargetFresh /\ [][PersistedUnchanged]_vars

\* A job of a store that holds an earlier job's output was aborted after it
\* handed part 0 its target.
C8_Witness ==
    /\ pc = "aborted"
    /\ FullOutputPath(OutputPath, "j1") \in DOMAIN storage
    /\ job_id = "j2"
    /\ part_paths = <<PartPath(JobRoot, 0)>>
    /\ call.output_path = PartPath(JobRoot, 0)

\* C9 as stated: a single-pass job over a non-empty shard list in which every
\* external call succeeds ends with the final dataset persisted at the job root.
C9_SinglePassPersists ==
    (/\ Ended
     /\ multipart = NoMultipart
     /\ err \notin {"ManifestError", "AnalysisException"}
     /\ \A k \in 1..Len(wat_index_files) :
            ShardFile(k).openable /\ ~ShardFile(k).stream.faulty) =>
        /\ pc = "done"
        /\ JobRoot \in DOMAIN storage

=============================================================================
